---------------------------- MODULE Spec2Model ----------------------------
(***************************************************************************)
(* A model of src/vae/vae.py: the class VAE with its four public           *)
(* operations sample_with_reparametrization, kl_divergence, elbo and       *)
(* sample, the torchtyping/typeguard shape checks that decorate them, and  *)
(* the process-wide random generator they draw from.                       *)
(*                                                                         *)
(* Tensors hold floating-point numbers.  They are modelled on a grid of    *)
(* quarters with a largest finite value, two infinities and NaN, with the  *)
(* IEEE rules for overflow, Inf - Inf and 0 * Inf, and with every result   *)
(* rounded to the grid (ties to even).                                     *)
(***************************************************************************)
EXTENDS Integers, Sequences, FiniteSets, TLC

(***************************************************************************)
(* Floating-point numbers.  A finite number v stands for v / One.          *)
(***************************************************************************)
One == 4

\* round(One * ln(k / One)) for k = 1 .. 64
LogTable ==
  << -6, -3, -1, 0, 1, 2, 2, 3, 3, 4, 4, 4, 5, 5, 5, 6,
     6, 6, 6, 6, 7, 7, 7, 7, 7, 7, 8, 8, 8, 8, 8, 8,
     8, 9, 9, 9, 9, 9, 9, 9, 9, 9, 9, 10, 10, 10, 10, 10,
     10, 10, 10, 10, 10, 10, 10, 11, 11, 11, 11, 11, 11, 11, 11, 11 >>

\* round(One * exp(k / One)) for k = -8 .. 11, stored at index k + 9
ExpTable ==
  << 1, 1, 1, 1, 1, 2, 2, 3, 4, 5, 7, 8, 11, 14, 18, 23, 30, 38, 49, 63 >>

FMax == Len(LogTable)
PInf == FMax + 1
NInf == 0 - PInf
NaN  == PInf + 1
Finite == NInf + 1 .. PInf - 1
Float  == NInf .. NaN

IsNaN(a)    == a = NaN
IsFinite(a) == a \in Finite

\* the value of an exact result n (in grid units): overflow gives an infinity
Clamp(n) == IF n > FMax THEN PInf ELSE IF n < 0 - FMax THEN NInf ELSE n

\* n / d (d > 0) rounded to the nearest integer, ties to even
RoundDiv(n, d) ==
  LET q == n \div d
      r == n % d
  IN  IF 2 * r > d THEN q + 1
      ELSE IF 2 * r < d THEN q
      ELSE IF q % 2 = 0 THEN q ELSE q + 1

fneg(a) == IF IsNaN(a) THEN NaN ELSE 0 - a

fadd(a, b) ==
  IF IsNaN(a) \/ IsNaN(b) THEN NaN
  ELSE IF a = PInf THEN (IF b = NInf THEN NaN ELSE PInf)
  ELSE IF a = NInf THEN (IF b = PInf THEN NaN ELSE NInf)
  ELSE IF b = PInf \/ b = NInf THEN b
  ELSE Clamp(a + b)

fsub(a, b) == fadd(a, fneg(b))

Sign(a) == IF a > 0 THEN 1 ELSE IF a < 0 THEN -1 ELSE 0

fmul(a, b) ==
  IF IsNaN(a) \/ IsNaN(b) THEN NaN
  ELSE IF ~IsFinite(a) \/ ~IsFinite(b)
       THEN (IF a = 0 \/ b = 0 THEN NaN
             ELSE IF Sign(a) * Sign(b) > 0 THEN PInf ELSE NInf)
  ELSE Clamp(RoundDiv(a * b, One))

fexp(a) ==
  IF IsNaN(a) THEN NaN
  ELSE IF a = PInf THEN PInf
  ELSE IF a < -8 THEN 0
  ELSE IF a > 11 THEN PInf
  ELSE ExpTable[a + 9]

flog(a) ==
  IF IsNaN(a) \/ a < 0 THEN NaN
  ELSE IF a = 0 THEN NInf
  ELSE IF a = PInf THEN PInf
  ELSE LogTable[a]

\* comparisons are false on NaN
fle(a, b) == ~IsNaN(a) /\ ~IsNaN(b) /\ a <= b
flt(a, b) == ~IsNaN(a) /\ ~IsNaN(b) /\ a < b

(***************************************************************************)
(* Tensors: a shape (a tuple of sizes) and the values.  A tensor of rank 2 *)
(* holds its rows, each a tuple; a tensor of rank 1 holds one tuple.       *)
(***************************************************************************)
Tensor2(b, d, v) == [shape |-> <<b, d>>, val |-> v]

Tensor1(b, v) == [shape |-> <<b>>, val |-> v]

Rank(t) == Len(t.shape)
Rows(t) == t.shape[1]
Cols(t) == t.shape[2]

\* elementwise s + t and s * t of two tensors of one shape, and exp(t)
TAdd(s, t) ==
  Tensor2(Rows(s), Cols(s),
          [i \in 1..Rows(s) |-> [j \in 1..Cols(s) |->
             fadd(s.val[i][j], t.val[i][j])]])

TMul(s, t) ==
  Tensor2(Rows(s), Cols(s),
          [i \in 1..Rows(s) |-> [j \in 1..Cols(s) |->
             fmul(s.val[i][j], t.val[i][j])]])

TExp(t) ==
  Tensor2(Rows(t), Cols(t),
          [i \in 1..Rows(t) |-> [j \in 1..Cols(t) |-> fexp(t.val[i][j])]])

\* torch.sum(t, dim=1): the entries of each row added left to right from 0
RECURSIVE SumTo(_, _)
SumTo(row, n) == IF n = 0 THEN 0 ELSE fadd(SumTo(row, n - 1), row[n])

SumDim1(t) ==
  Tensor1(Rows(t), [i \in 1..Rows(t) |-> SumTo(t.val[i], Cols(t))])


NoTensor == [shape |-> <<>>, val |-> <<>>]

(***************************************************************************)
(* The process-wide random generator: a position in a stream that a seed   *)
(* fixes.  Every value drawn moves the position by one.                    *)
(***************************************************************************)
NormalStream  == << 4, -2, 0, -6, 2 >>
UniformStream == << 0, 3, 1, 2, 1 >>
Period == Len(NormalStream)

Advance(g, n) == (g + n) % Period

\* torch.randn(b, d): b * d standard-normal values, in row-major order
randn(b, d, g) ==
  Tensor2(b, d,
          [i \in 1..b |-> [j \in 1..d |->
             NormalStream[Advance(g, (i - 1) * d + (j - 1)) + 1]]])

\* torch.randn_like(t)
randn_like(t, g) == randn(Rows(t), Cols(t), g)

\* torch.bernoulli(theta): entry (i, j) is 1 when its uniform draw is below
\* theta[i][j], else 0
bernoulli(theta, g) ==
  Tensor2(Rows(theta), Cols(theta),
          [i \in 1..Rows(theta) |-> [j \in 1..Cols(theta) |->
             IF UniformStream[Advance(g, (i - 1) * Cols(theta) + (j - 1)) + 1]
                  < theta.val[i][j]
             THEN One ELSE 0]])

Numel(t) == IF Rank(t) = 2 THEN Rows(t) * Cols(t) ELSE Rows(t)

(***************************************************************************)
(* @typechecked with torchtyping: every annotated tensor has the rank of   *)
(* its annotation, and a dimension name stands for one size throughout a   *)
(* call.  The names are names only: 'latent_dim' is not self.latent_dim.   *)
(***************************************************************************)
\* mu: TensorType['batch_size', 'latent_dim'],
\* logsigma: TensorType['batch_size', 'latent_dim']
TypesMuLogsigma(mu, logsigma) ==
  /\ Rank(mu) = 2
  /\ Rank(logsigma) = 2
  /\ mu.shape = logsigma.shape

\* x: TensorType['batch_size', 'input_dim']
TypesX(x) == Rank(x) = 2

\* Tuple[TensorType['num_samples', 'latent_dim'],
\*       TensorType['num_samples', 'input_dim'],
\*       TensorType['num_samples', 'input_dim']]
TypesSampleReturn(z, theta, x) ==
  /\ Rank(z) = 2 /\ Rank(theta) = 2 /\ Rank(x) = 2
  /\ Rows(z) = Rows(theta) /\ Rows(z) = Rows(x)
  /\ Cols(theta) = Cols(x)

(***************************************************************************)
(* The collaborators of vae.py, whose code is in other files: Encoder and  *)
(* Decoder, as their interface describes them.  Each is a deterministic    *)
(* function of its input and its parameters.                               *)
(***************************************************************************)
\* encode(x[batch, input_dim]) -> (mu, logsigma), each [batch, latent_dim]
EncoderAccepts(enc, x) == Rank(x) = 2 /\ Cols(x) = enc.input_dim

EncoderMu(enc, x) ==
  Tensor2(Rows(x), enc.latent_dim,
          [i \in 1..Rows(x) |-> [j \in 1..enc.latent_dim |->
             fadd(fmul(enc.w, SumTo(x.val[i], Cols(x))), enc.b)]])

EncoderLogsigma(enc, x) ==
  Tensor2(Rows(x), enc.latent_dim,
          [i \in 1..Rows(x) |-> [j \in 1..enc.latent_dim |-> enc.s]])

\* the output transform of the decoder: "interior" keeps theta strictly
\* inside (0,1); "saturating" reaches 0 and 1; "linear" applies none
Squash(kind, a) ==
  IF kind = "linear" \/ IsNaN(a) THEN a
  ELSE IF a <= 0 - One THEN (IF kind = "interior" THEN 1 ELSE 0)
  ELSE IF a >= One THEN (IF kind = "interior" THEN One - 1 ELSE One)
  ELSE One \div 2

\* decode(z[batch, latent_dim]) -> theta[batch, input_dim]
DecoderAccepts(dec, z) == Rank(z) = 2 /\ Cols(z) = dec.latent_dim

Decoder(dec, z) ==
  Tensor2(Rows(z), dec.input_dim,
          [i \in 1..Rows(z) |-> [j \in 1..dec.input_dim |->
             Squash(dec.kind,
                    fadd(fmul(dec.w, SumTo(z.val[i], Cols(z))), dec.b))]])

(***************************************************************************)
(* The state: one VAE instance, the tensors and the count its caller       *)
(* holds, the generator, and what the calls made so far have returned.     *)
(***************************************************************************)
VARIABLES
  latent_dim,    \* self.latent_dim
  encoder,       \* self.encoder: its dimensions and parameters
  decoder,       \* self.decoder: its dimensions and parameters
  argX,          \* the caller's observation batch
  argMu,         \* the caller's posterior means
  argMu2,        \* a second tensor of means the caller holds
  argLogsigma,   \* the caller's posterior log-sigmas
  argN,          \* the caller's num_samples
  gen,           \* the position of the random generator
  pc,            \* the statement of elbo that runs next ("idle": no call runs)
  frame,         \* the locals of the running call of elbo
  last,          \* the last completed call
  prev           \* the completed call before it, when the caller has
                 \* repeated elbo or kl_divergence to compare the results
                 \* (else no call)

vars == << latent_dim, encoder, decoder, argX, argMu, argMu2, argLogsigma,
           argN, gen, pc, frame, last, prev >>

model  == << latent_dim, encoder, decoder >>
inputs == << argX, argMu, argMu2, argLogsigma, argN >>

\* a completed call: the operation, how it ended, the generator position it
\* started from, the number of values it drew, its tensor arguments, the
\* calls it made on the collaborators and on self, and what it returned
NoCall == [op |-> "none", outcome |-> "none", gen0 |-> 0, draws |-> 0,
           arg |-> <<>>, calls |-> <<>>, out |-> <<>>]

Call(fn, args, ret) == [fn |-> fn, args |-> args, ret |-> ret]

Raised(op, what, g, n, arg, calls) ==
  [op |-> op, outcome |-> what, gen0 |-> g, draws |-> n, arg |-> arg,
   calls |-> calls, out |-> <<>>]

Returned(op, g, n, arg, calls, out) ==
  [op |-> op, outcome |-> "ok", gen0 |-> g, draws |-> n, arg |-> arg,
   calls |-> calls, out |-> out]

\* what the caller keeps of the call before r
Before(r) ==
  IF last.op = r.op /\ r.op \in {"elbo", "kl_divergence"} THEN last ELSE NoCall

(***************************************************************************)
(* VAE.sample_with_reparametrization                                       *)
(***************************************************************************)
\* Reparametrize with noise that also depends on the call made before
ReparametrizeStale(mu, logsigma, g) ==
  LET epsilon == randn_like(mu, IF last.op = "elbo" THEN last.gen0 + 1 ELSE g)
      sigma   == TExp(logsigma)
  IN  TAdd(mu, TMul(epsilon, sigma))

Reparametrize(mu, logsigma, g) ==
  LET epsilon == randn_like(mu, g)
      sigma   == TExp(logsigma)
  IN  TAdd(mu, TMul(epsilon, sigma))

sample_with_reparametrization(mu, logsigma, g) ==
  IF ~TypesMuLogsigma(mu, logsigma)
  THEN Raised("sample_with_reparametrization", "TypeError", g, 0,
              <<mu, logsigma>>, <<>>)
  ELSE Returned("sample_with_reparametrization", g, Numel(mu),
                <<mu, logsigma>>, <<>>, << Reparametrize(mu, logsigma, g) >>)

(***************************************************************************)
(* VAE.kl_divergence                                                       *)
(***************************************************************************)
\* KlTerm with the factor 2 of the linear term forgotten
KlTermNoTwo(m, l) ==
  fsub(fsub(fadd(One, l), fmul(m, m)), fexp(fmul(2 * One, l)))

\* KlTerm with the leading 1 forgotten
KlTermNoOne(m, l) ==
  fsub(fsub(fmul(2 * One, l), fmul(m, m)), fexp(fmul(2 * One, l)))

\* 1 + 2 * logsigma - mu.pow(2) - (2 * logsigma).exp(), one entry
KlTerm(m, l) ==
  fsub(fsub(fadd(One, fmul(2 * One, l)), fmul(m, m)), fexp(fmul(2 * One, l)))

KlTerms(mu, logsigma) ==
  Tensor2(Rows(mu), Cols(mu),
          [i \in 1..Rows(mu) |-> [j \in 1..Cols(mu) |->
             KlTerm(mu.val[i][j], logsigma.val[i][j])]])

\* Kl with torch.sum taken over the whole tensor instead of dim=1
KlSumAll(mu, logsigma) ==
  LET terms == KlTerms(mu, logsigma)
      sums  == SumDim1(terms)
      all   == SumTo(sums.val, Rows(mu))
  IN  Tensor1(Rows(mu), [i \in 1..Rows(mu) |-> fmul(0 - One \div 2, all)])

Kl(mu, logsigma) ==
  LET terms == KlTerms(mu, logsigma)
      sums  == SumDim1(terms)
  IN  Tensor1(Rows(mu),
              [i \in 1..Rows(mu) |-> fmul(0 - One \div 2, sums.val[i])])

kl_divergence(mu, logsigma, g) ==
  IF ~TypesMuLogsigma(mu, logsigma)
  THEN Raised("kl_divergence", "TypeError", g, 0, <<mu, logsigma>>, <<>>)
  ELSE Returned("kl_divergence", g, 0, <<mu, logsigma>>, <<>>,
                << Kl(mu, logsigma) >>)

(***************************************************************************)
(* VAE.sample                                                              *)
(***************************************************************************)
\* torch.bernoulli refuses a probability outside [0, 1]
IsProbability(theta) ==
  \A i \in 1..Rows(theta) : \A j \in 1..Cols(theta) :
     fle(0, theta.val[i][j]) /\ fle(theta.val[i][j], One)

\* SampleX returning the probabilities themselves
SampleXNoDraw(theta, g) == theta

\* x = torch.bernoulli(theta)
SampleX(theta, g) == bernoulli(theta, g)

sample(n, g) ==
  IF n < 0
  THEN \* torch.randn refuses a negative size
       Raised("sample", "RuntimeError", g, 0, <<>>, <<>>)
  ELSE LET z     == randn(n, latent_dim, g)
           theta == Decoder(decoder, z)
           calls == << Call("decoder", <<z>>, <<theta>>) >>
           g1    == Advance(g, n * latent_dim)
       IN  IF ~IsProbability(theta)
           THEN Raised("sample", "RuntimeError", g, n * latent_dim, <<>>,
                       calls)
           ELSE LET x == SampleX(theta, g1)
                    d == n * latent_dim + Numel(theta)
                IN  IF ~TypesSampleReturn(z, theta, x)
                    THEN Raised("sample", "TypeError", g, d, <<>>, calls)
                    ELSE Returned("sample", g, d, <<>>, calls, <<z, theta, x>>)

(***************************************************************************)
(* VAE.elbo, statement by statement                                        *)
(***************************************************************************)
NoFrame == [gen0 |-> 0, mu |-> NoTensor, logsigma |-> NoTensor,
            z |-> NoTensor, theta |-> NoTensor, recon |-> NoTensor,
            kl |-> NoTensor, calls |-> <<>>]

\* how a call of elbo ends
ElboEnds(r) ==
  /\ last' = r
  /\ prev' = Before(r)
  /\ pc' = "idle"
  /\ frame' = NoFrame

\* ReconTerm with theta clamped into [1/4, 3/4] before the logarithms
ReconTermClamped(x, th) ==
  LET t == IF IsNaN(th) THEN One \div 2
           ELSE IF th < 1 THEN 1 ELSE IF th > One - 1 THEN One - 1 ELSE th
  IN  fadd(fmul(x, flog(t)), fmul(fsub(One, x), flog(fsub(One, t))))

\* the Bernoulli log-likelihood of one entry:
\* x * log(theta) + (1 - x) * log(1 - theta)
ReconTerm(x, th) ==
  fadd(fmul(x, flog(th)), fmul(fsub(One, x), flog(fsub(One, th))))

Recon(x, theta) ==
  SumDim1(Tensor2(Rows(x), Cols(x),
                  [i \in 1..Rows(x) |-> [j \in 1..Cols(x) |->
                     ReconTerm(x.val[i][j], theta.val[i][j])]]))

\* elbo_mc = reconstruction_loss - kl_divergence
ElboMc(recon, kl) ==
  Tensor1(Rows(recon),
          [i \in 1..Rows(recon) |-> fsub(recon.val[i], kl.val[i])])

\* the return annotation TensorType['batch_size'], with x's batch_size
TypesElboReturn(x, out) == Rank(out) = 1 /\ Rows(out) = Rows(x)

\* mu, logsigma = self.encoder(x)
ElboEncode ==
  /\ pc = "idle"
  /\ IF ~TypesX(argX)
     THEN /\ ElboEnds(Raised("elbo", "TypeError", gen, 0, <<argX>>, <<>>))
          /\ UNCHANGED << model, inputs, gen >>
     ELSE IF ~EncoderAccepts(encoder, argX)
     THEN /\ ElboEnds(Raised("elbo", "RuntimeError", gen, 0, <<argX>>,
                             << Call("encoder", <<argX>>, <<>>) >>))
          /\ UNCHANGED << model, inputs, gen >>
     ELSE LET mu       == EncoderMu(encoder, argX)
              logsigma == EncoderLogsigma(encoder, argX)
          IN  /\ frame' = [NoFrame EXCEPT
                             !.gen0 = gen, !.mu = mu, !.logsigma = logsigma,
                             !.calls = << Call("encoder", <<argX>>,
                                               <<mu, logsigma>>) >>]
              /\ pc' = "sample"
              /\ UNCHANGED << model, inputs, gen, last, prev >>

\* z = self.sample_with_reparametrization(mu, logsigma)
ElboSample ==
  /\ pc = "sample"
  /\ LET r == sample_with_reparametrization(frame.mu, frame.logsigma, gen)
         c == Append(frame.calls,
                     Call("sample_with_reparametrization", r.arg, r.out))
     IN  /\ gen' = Advance(gen, r.draws)
         /\ IF r.outcome # "ok"
            THEN ElboEnds(Raised("elbo", r.outcome, frame.gen0, r.draws,
                                 <<argX>>, c))
            ELSE /\ frame' = [frame EXCEPT !.z = r.out[1], !.calls = c]
                 /\ pc' = "decode"
                 /\ UNCHANGED << last, prev >>
  /\ UNCHANGED << model, inputs >>

\* ElboDecode decoding the mean instead of the sample
ElboDecodeMean ==
  /\ pc = "decode"
  /\ LET theta == Decoder(decoder, frame.mu)
     IN  /\ frame' = [frame EXCEPT
                        !.theta = theta,
                        !.calls = Append(frame.calls,
                                         Call("decoder", <<frame.mu>>,
                                              <<theta>>))]
         /\ pc' = "recon"
         /\ UNCHANGED << last, prev >>
  /\ UNCHANGED << model, inputs, gen >>

\* theta = self.decoder(z)
ElboDecode ==
  /\ pc = "decode"
  /\ IF ~DecoderAccepts(decoder, frame.z)
     THEN ElboEnds(Raised("elbo", "RuntimeError", frame.gen0,
                          Numel(frame.mu), <<argX>>,
                          Append(frame.calls,
                                 Call("decoder", <<frame.z>>, <<>>))))
     ELSE LET theta == Decoder(decoder, frame.z)
          IN  /\ frame' = [frame EXCEPT
                             !.theta = theta,
                             !.calls = Append(frame.calls,
                                              Call("decoder", <<frame.z>>,
                                                   <<theta>>))]
              /\ pc' = "recon"
              /\ UNCHANGED << last, prev >>
  /\ UNCHANGED << model, inputs, gen >>

\* reconstruction_loss = torch.sum(x * torch.log(theta)
\*                                 + (1 - x) * torch.log(1 - theta), dim=1)
ElboRecon ==
  /\ pc = "recon"
  /\ frame' = [frame EXCEPT !.recon = Recon(argX, frame.theta)]
  /\ pc' = "kl"
  /\ UNCHANGED << model, inputs, gen, last, prev >>

\* kl_divergence = self.kl_divergence(mu, logsigma)
ElboKl ==
  /\ pc = "kl"
  /\ LET r == kl_divergence(frame.mu, frame.logsigma, gen)
         c == Append(frame.calls, Call("kl_divergence", r.arg, r.out))
     IN  IF r.outcome # "ok"
         THEN ElboEnds(Raised("elbo", r.outcome, frame.gen0, Numel(frame.mu),
                              <<argX>>, c))
         ELSE /\ frame' = [frame EXCEPT !.kl = r.out[1], !.calls = c]
              /\ pc' = "return"
              /\ UNCHANGED << last, prev >>
  /\ UNCHANGED << model, inputs, gen >>

\* elbo_mc = reconstruction_loss - kl_divergence; return elbo_mc
ElboReturn ==
  /\ pc = "return"
  /\ LET elbo_mc == ElboMc(frame.recon, frame.kl)
     IN  IF ~TypesElboReturn(argX, elbo_mc)
         THEN ElboEnds(Raised("elbo", "TypeError", frame.gen0,
                              Numel(frame.mu), <<argX>>, frame.calls))
         ELSE ElboEnds(Returned("elbo", frame.gen0, Numel(frame.mu),
                                <<argX>>, frame.calls, <<elbo_mc>>))
  /\ UNCHANGED << model, inputs, gen >>

(***************************************************************************)
(* The calls a caller makes on the other three operations.                 *)
(***************************************************************************)
Completes(r) ==
  /\ pc = "idle"
  /\ last' = r
  /\ prev' = Before(r)
  /\ gen' = Advance(gen, r.draws)
  /\ UNCHANGED << model, inputs, pc, frame >>

\* SampleWithReparametrizationCall adding the noise to the caller's mu in place
SampleWithReparametrizationInPlace ==
  LET r == sample_with_reparametrization(argMu, argLogsigma, gen)
  IN  /\ pc = "idle"
      /\ last' = r
      /\ prev' = Before(r)
      /\ gen' = Advance(gen, r.draws)
      /\ argMu' = IF r.outcome = "ok" THEN r.out[1] ELSE argMu
      /\ UNCHANGED << model, argX, argMu2, argLogsigma, argN, pc, frame >>

SampleWithReparametrizationCall ==
  Completes(sample_with_reparametrization(argMu, argLogsigma, gen))

KlDivergenceCall == Completes(kl_divergence(argMu, argLogsigma, gen))

KlDivergenceCall2 == Completes(kl_divergence(argMu2, argLogsigma, gen))

SampleCall == Completes(sample(argN, gen))

\* torch.manual_seed(s): the generator restarts at the position of seed s
ManualSeed ==
  /\ pc = "idle"
  /\ \E s \in 0 .. Period - 1 : gen' = s
  /\ UNCHANGED << model, inputs, pc, frame, last, prev >>

(***************************************************************************)
(* Construction, and the inputs a caller may hold.                         *)
(***************************************************************************)
MaxBatch   == 2
MaxLatent  == 2
MaxInput   == 2
MaxSamples == 2

\* VAE(input_dim, latent_dim): hidden_dim and the layers are the
\* collaborators' own; ep and dp stand for their trained parameters
Construct(in_dim, lat_dim, ep, dp, kind) ==
  /\ latent_dim = lat_dim
  /\ encoder = [input_dim |-> in_dim, latent_dim |-> lat_dim,
                w |-> ep.w, b |-> ep.b, s |-> ep.s]
  /\ decoder = [input_dim |-> in_dim, latent_dim |-> lat_dim,
                w |-> dp.w, b |-> dp.b, kind |-> kind]

EncParams == { [w |-> One, b |-> 0, s |-> 0],
               [w |-> 0 - One \div 2, b |-> 1, s |-> -2] }
DecParams == { [w |-> One, b |-> 0], [w |-> 0 - One, b |-> 2] }
EncDefault == [w |-> One, b |-> 0, s |-> 0]
DecDefault == [w |-> One, b |-> 0]

\* a tensor holding v everywhere
Fill(b, d, v) == Tensor2(b, d, [i \in 1..b |-> [j \in 1..d |-> v]])
\* a tensor holding w at (r, c) and v elsewhere
Spot(b, d, v, r, c, w) ==
  Tensor2(b, d,
          [i \in 1..b |-> [j \in 1..d |-> IF i = r /\ j = c THEN w ELSE v]])
\* a tensor of alternating zeros and ones
Checker(b, d) ==
  Tensor2(b, d,
          [i \in 1..b |-> [j \in 1..d |-> IF (i + j) % 2 = 0 THEN One ELSE 0]])
\* a tensor of rank 1
Flat(b, v) == Tensor1(b, [i \in 1..b |-> v])

\* observation batches with entries in [0, 1]
Observations(b, d) ==
  { Fill(b, d, 0), Fill(b, d, One), Checker(b, d), Fill(b, d, One \div 2) }

\* observation batches with one entry outside [0, 1]
BadObservations(b, d) ==
  { Spot(b, d, v, r, c, w) :
      v \in {0, One}, r \in 1..b, c \in 1..d, w \in {2 * One, 0 - One} }

MuVals == { -8, 0, 1, 2, 4, 20, FMax }
LsVals == { -40, -2, 0, 2, 6, 40 }

\* mu with entry (r, c) replaced by a value of twice its absolute value
Doubled(mu, r, c, sgn) ==
  [mu EXCEPT !.val[r][c] =
     fmul(sgn * One, fmul(2 * One, IF mu.val[r][c] < 0 THEN fneg(mu.val[r][c])
                                   ELSE mu.val[r][c]))]

Idle ==
  /\ pc = "idle"
  /\ frame = NoFrame
  /\ last = NoCall
  /\ prev = NoCall

\* every operation, on inputs of the shapes the model was built for
Init ==
  /\ \E i \in 1..MaxInput, l \in 1..MaxLatent, b \in {1, MaxBatch} :
        /\ Construct(i, l, EncDefault, DecDefault, "interior")
        /\ argX = Checker(b, i)
        /\ argMu = Spot(b, l, 0, 1, 1, One)
        /\ argLogsigma = Fill(b, l, 0)
  /\ argMu2 = argMu
  /\ argN \in {0 - 1, 0, MaxSamples}
  /\ gen = 0
  /\ Idle

\* inputs of every shape, matching the model and each other or not
InitShape ==
  /\ \E i \in 1..MaxInput, l \in 1..MaxLatent :
        Construct(i, l, EncDefault, DecDefault, "interior")
  /\ \E b \in 1..MaxBatch :
        /\ argX \in { Fill(b, d, One) : d \in 1..MaxInput } \cup { Flat(b, One) }
        /\ argMu \in { Fill(b, d, One) : d \in 1..MaxLatent } \cup { Flat(b, One) }
  /\ argLogsigma \in { Fill(b, d, 0) : b \in 1..MaxBatch, d \in 1..MaxLatent }
                       \cup { Flat(1, 0) }
  /\ argMu2 = argMu
  /\ argN = 1
  /\ gen = 0
  /\ Idle

\* posterior parameters of every size, sign and magnitude, and a second
\* tensor of means with one entry doubled
InitKL ==
  /\ Construct(1, 1, EncDefault, DecDefault, "interior")
  /\ argX = Fill(1, 1, 0)
  /\ argN = 1
  /\ \E b \in 1..MaxBatch, d \in 1..MaxLatent :
       \E r \in 1..b, c \in 1..d :
          /\ argMu \in { Spot(b, d, v, r, c, w) : v \in {0, 2}, w \in MuVals }
          /\ argLogsigma \in { Spot(b, d, v, r, c, w) :
                                 v \in {0, -2}, w \in LsVals }
          /\ argMu2 \in { Doubled(argMu, r2, c2, sgn) :
                            r2 \in 1..b, c2 \in 1..d, sgn \in {1, -1} }
  /\ gen = 0
  /\ Idle

InitElboWith(eps, dps, kinds, good) ==
  /\ \E i \in 1..MaxInput, l \in 1..MaxLatent, b \in 1..MaxBatch :
        /\ \E ep \in eps, dp \in dps, k \in kinds :
              Construct(i, l, ep, dp, k)
        /\ argX \in Observations(b, i)
                      \cup (IF good THEN {} ELSE BadObservations(b, i))
  /\ argMu = Fill(1, 1, 0)
  /\ argMu2 = argMu
  /\ argLogsigma = Fill(1, 1, 0)
  /\ argN = 1
  /\ gen = 0
  /\ Idle

\* observations in [0, 1] and a decoder that keeps theta inside (0, 1)
InitElbo == InitElboWith(EncParams, DecParams, {"interior"}, TRUE)

\* observations and decoders that may leave their domains
InitDomain ==
  InitElboWith({EncDefault}, {DecDefault},
               {"interior", "saturating", "linear"}, FALSE)

InitSample ==
  /\ \E i \in 1..MaxInput, l \in 1..MaxLatent :
       \E ep \in EncParams, dp \in DecParams :
          Construct(i, l, ep, dp, "interior")
  /\ argX = Fill(1, 1, 0)
  /\ argMu = Fill(1, 1, 0)
  /\ argMu2 = argMu
  /\ argLogsigma = Fill(1, 1, 0)
  /\ argN \in (0 - MaxSamples) .. MaxSamples
  /\ gen = 0
  /\ Idle

ElboStep ==
  \/ ElboEncode
  \/ ElboSample
  \/ ElboDecode
  \/ ElboRecon
  \/ ElboKl
  \/ ElboReturn

Next ==
  \/ ElboStep
  \/ SampleWithReparametrizationCall
  \/ KlDivergenceCall
  \/ SampleCall
  \/ ManualSeed

NextShape ==
  \/ ElboStep
  \/ SampleWithReparametrizationCall
  \/ KlDivergenceCall

NextKL == KlDivergenceCall \/ KlDivergenceCall2

NextElbo == ElboStep \/ ManualSeed

NextDomain == ElboStep

NextSample == SampleCall \/ ManualSeed

Spec       == Init /\ [][Next]_vars
SpecShape  == InitShape /\ [][NextShape]_vars
SpecKL     == InitKL /\ [][NextKL]_vars
SpecElbo   == InitElbo /\ [][NextElbo]_vars
SpecDomain == InitDomain /\ [][NextDomain]_vars
SpecSample == InitSample /\ [][NextSample]_vars

(***************************************************************************)
(* Properties.                                                             *)
(***************************************************************************)
AllFinite(t) ==
  \A i \in 1..Rows(t) : \A j \in 1..Cols(t) : IsFinite(t.val[i][j])

AllEqual(t, v) ==
  \A i \in 1..Rows(t) : \A j \in 1..Cols(t) : t.val[i][j] = v

Did(op) == last.op = op /\ last.outcome = "ok"

\* the shapes the model was built for
MuLogsigmaContract(mu, logsigma) ==
  /\ Rank(mu) = 2 /\ Rank(logsigma) = 2
  /\ mu.shape = logsigma.shape
  /\ Cols(mu) = latent_dim

XContract(x) == Rank(x) = 2 /\ Cols(x) = encoder.input_dim

Rejected == last.outcome \notin {"ok", "none"} /\ last.out = <<>> /\ last.draws = 0

\* C1: sample(num_samples) with num_samples <= 0 ends in an error, returns
\* no (z, theta, x), does not invoke the decoder and draws nothing.
C1_RejectsNonPositive ==
  (last.op = "sample" /\ argN <= 0) => (Rejected /\ last.calls = <<>>)

\* C2: sample_with_reparametrization, kl_divergence and elbo reject, before
\* any random draw, every input whose dimensions disagree with each other or
\* with the latent_dim / input_dim of the model.
C2_RejectsEveryMismatch ==
  /\ (last.op \in {"sample_with_reparametrization", "kl_divergence"}
        /\ ~MuLogsigmaContract(last.arg[1], last.arg[2])) => Rejected
  /\ (last.op = "elbo" /\ ~XContract(last.arg[1])) => Rejected

\* C3 as stated: for finite mu and logsigma every entry of kl_divergence is
\* non-negative.
C3_KlNonNegative ==
  (Did("kl_divergence") /\ AllFinite(last.arg[1]) /\ AllFinite(last.arg[2]))
    => \A i \in 1..Rows(last.arg[1]) : fle(0, last.out[1].val[i])

\* C3 as amended: for finite mu and logsigma every entry of kl_divergence is
\* non-negative or NaN, and it is NaN only in a row where 2 * logsigma
\* overflows to +infinity.
C3_KlNonNegativeOrNaN ==
  (Did("kl_divergence") /\ AllFinite(last.arg[1]) /\ AllFinite(last.arg[2]))
    => \A i \in 1..Rows(last.arg[1]) :
          \/ fle(0, last.out[1].val[i])
          \/ /\ IsNaN(last.out[1].val[i])
             /\ \E j \in 1..Cols(last.arg[2]) :
                   fmul(2 * One, last.arg[2].val[i][j]) = PInf

C3_Witness ==
  /\ Did("kl_divergence")
  /\ AllFinite(last.arg[1]) /\ AllFinite(last.arg[2])
  /\ Rows(last.arg[1]) = MaxBatch /\ Cols(last.arg[1]) = MaxLatent
  /\ \E i \in 1..MaxBatch :
        /\ IsFinite(last.out[1].val[i]) /\ last.out[1].val[i] > 0
        /\ \E j \in 1..MaxLatent : last.arg[2].val[i][j] < 0

\* the caller has evaluated kl_divergence on argMu and then on argMu2
KlPair ==
  /\ Did("kl_divergence")
  /\ prev.op = "kl_divergence" /\ prev.outcome = "ok"
  /\ prev.arg = <<argMu, argLogsigma>>
  /\ last.arg = <<argMu2, argLogsigma>>

\* the entries (r, c) and signs for which argMu2 is argMu with entry (r, c)
\* replaced by a value of doubled absolute value
DoubledAt ==
  { e \in (1..Rows(argMu)) \X (1..Cols(argMu)) \X {1, -1} :
      argMu2 = Doubled(argMu, e[1], e[2], e[3]) }

\* C4 as stated: doubling |mu[d]| in one row strictly increases that row's
\* kl_divergence and leaves every other row's value unchanged (read here for
\* finite inputs and finite values of the row only).
C4_DoublingStrictlyIncreases ==
  (KlPair /\ AllFinite(argMu) /\ AllFinite(argMu2) /\ AllFinite(argLogsigma))
    => \A e \in DoubledAt :
          /\ (IsFinite(prev.out[1].val[e[1]]) /\ IsFinite(last.out[1].val[e[1]]))
               => flt(prev.out[1].val[e[1]], last.out[1].val[e[1]])
          /\ \A i \in 1..Rows(argMu) :
                i # e[1] => last.out[1].val[i] = prev.out[1].val[i]

\* C4 as amended: doubling |mu[d]| in one row never decreases that row's
\* kl_divergence (a NaN row stays NaN) and leaves every other row's value
\* unchanged.
C4_DoublingNeverDecreases ==
  KlPair
    => \A e \in DoubledAt :
          /\ \/ fle(prev.out[1].val[e[1]], last.out[1].val[e[1]])
             \/ IsNaN(prev.out[1].val[e[1]]) /\ IsNaN(last.out[1].val[e[1]])
          /\ \A i \in 1..Rows(argMu) :
                i # e[1] => last.out[1].val[i] = prev.out[1].val[i]

C4_Witness ==
  /\ KlPair
  /\ Rows(argMu) = MaxBatch
  /\ \E e \in DoubledAt :
        /\ argMu.val[e[1]][e[2]] # 0
        /\ argMu2 # argMu
        /\ IsFinite(last.out[1].val[e[1]])
        /\ prev.out[1].val[e[1]] < last.out[1].val[e[1]]

\* C5: kl_divergence of mu = 0 and logsigma = 0 is exactly 0 in every row,
\* whatever the batch size and the latent dimension.
C5_KlOfPriorIsZero ==
  (Did("kl_divergence") /\ AllEqual(last.arg[1], 0) /\ AllEqual(last.arg[2], 0))
    => \A i \in 1..Rows(last.arg[1]) : last.out[1].val[i] = 0

C5_Witness ==
  /\ Did("kl_divergence")
  /\ AllEqual(last.arg[1], 0) /\ AllEqual(last.arg[2], 0)
  /\ Rows(last.arg[1]) = MaxBatch /\ Cols(last.arg[1]) = MaxLatent
  /\ last.out[1].shape = << MaxBatch >>

C7_SampleShapesAndRanges ==
  (last.op = "sample" /\ argN > 0)
    => /\ last.outcome = "ok"
       /\ Len(last.out) = 3
       /\ last.out[1].shape = << argN, latent_dim >>
       /\ last.out[2].shape = << argN, decoder.input_dim >>
       /\ last.out[3].shape = << argN, decoder.input_dim >>
       /\ \A i \in 1..argN : \A j \in 1..decoder.input_dim :
             /\ last.out[3].val[i][j] \in {0, One}
             /\ flt(0, last.out[2].val[i][j])
             /\ flt(last.out[2].val[i][j], One)

C7_Witness ==
  /\ Did("sample") /\ argN = MaxSamples
  /\ latent_dim = MaxLatent /\ decoder.input_dim = MaxInput
  /\ \E i \in 1..argN : last.out[3].val[i][1] = One
  /\ \E i \in 1..argN : last.out[3].val[i][1] = 0

\* the theta of the last call of elbo, and the domain violations of row i
ThetaOf(c) == c.calls[3].ret[1]
XInDomain(x, i) ==
  \A j \in 1..Cols(x) : fle(0, x.val[i][j]) /\ fle(x.val[i][j], One)
ThetaInDomain(th, i) ==
  \A j \in 1..Cols(th) : flt(0, th.val[i][j]) /\ flt(th.val[i][j], One)

\* C8 as stated: on a domain violation (theta outside (0,1) or x outside
\* [0,1]) elbo completes, and the affected row is -infinity or NaN.
C8_ViolationGivesInfOrNaN ==
  last.op = "elbo"
    => /\ last.outcome = "ok"
       /\ \A i \in 1..Rows(argX) :
             (~XInDomain(argX, i) \/ ~ThetaInDomain(ThetaOf(last), i))
               => last.out[1].val[i] \in {NInf, NaN}

\* C8 as amended: on a domain violation elbo completes; a row whose x lies
\* in [0,1] and whose theta has an entry outside (0,1) is -infinity or NaN.
C8_ThetaViolationGivesInfOrNaN ==
  last.op = "elbo"
    => /\ last.outcome = "ok"
       /\ \A i \in 1..Rows(argX) :
             (XInDomain(argX, i) /\ ~ThetaInDomain(ThetaOf(last), i))
               => last.out[1].val[i] \in {NInf, NaN}

C8_Witness ==
  /\ Did("elbo")
  /\ \E i \in 1..Rows(argX) :
        /\ XInDomain(argX, i)
        /\ \E j \in 1..Cols(argX) : ThetaOf(last).val[i][j] \in {0, One}
        /\ last.out[1].val[i] = NInf
  /\ \E i \in 1..Rows(argX) :
        ~XInDomain(argX, i) /\ ~ThetaInDomain(ThetaOf(last), i)

\* the calls elbo has made once it stands at a statement
CallsAt(stage) ==
  CASE stage = "idle"   -> <<>>
    [] stage = "sample" -> << "encoder" >>
    [] stage = "decode" -> << "encoder", "sample_with_reparametrization" >>
    [] stage \in {"recon", "kl"} ->
         << "encoder", "sample_with_reparametrization", "decoder" >>
    [] stage = "return" ->
         << "encoder", "sample_with_reparametrization", "decoder",
            "kl_divergence" >>

Names(calls) == [k \in 1..Len(calls) |-> calls[k].fn]

\* C9: elbo encodes, samples, decodes, computes the reconstruction term and
\* then the KL term, each once and in this order; the decoder receives the
\* sampler's z, kl_divergence the (mu, logsigma) the sampler received, and the
\* result is recon_i - kl_i in every row.
C9_ElboOrder ==
  /\ Names(frame.calls) = CallsAt(pc)
  /\ (pc \in {"kl", "return"}) <=> (frame.recon # NoTensor)
  /\ (pc = "return") <=> (frame.kl # NoTensor)
  /\ Did("elbo") =>
       LET c == last.calls
       IN  /\ Names(c) = CallsAt("return")
           /\ c[1].args = << argX >>
           /\ c[2].args = c[1].ret
           /\ c[3].args = c[2].ret
           /\ c[4].args = c[2].args
           /\ Rows(c[2].ret[1]) = Rows(argX)
           /\ last.out[1].shape = << Rows(argX) >>
           /\ \A i \in 1..Rows(argX) :
                 last.out[1].val[i] =
                   fsub(SumTo([j \in 1..Cols(argX) |->
                                 ReconTerm(argX.val[i][j], c[3].ret[1].val[i][j])],
                              Cols(argX)),
                        c[4].ret[1].val[i])

C9_Witness ==
  /\ Did("elbo")
  /\ Len(last.calls) = 4
  /\ Rows(argX) = MaxBatch
  /\ last.calls[3].args[1] # last.calls[1].ret[1]
  /\ \E i \in 1..Rows(argX) : last.calls[4].ret[1].val[i] # 0

\* C10: no step of any operation changes the model or the caller's inputs;
\* kl_divergence leaves the generator where it is; sample moves it by the
\* values it draws and never invokes the encoder.
C10_Frame ==
  [][ /\ model' = model
      /\ inputs' = inputs
      /\ (KlDivergenceCall \/ ElboKl) => gen' = gen
      /\ SampleCall =>
           /\ gen' = Advance(gen, last'.draws)
           /\ \A k \in 1..Len(last'.calls) : last'.calls[k].fn # "encoder"
           /\ last'.outcome = "ok" =>
                last'.draws = argN * (latent_dim + decoder.input_dim)
      /\ (SampleWithReparametrizationCall /\ last'.outcome = "ok") =>
           last'.draws = Numel(argMu) ]_vars

C10_Witness ==
  /\ Did("sample") /\ last.draws > 0
  /\ gen # last.gen0
  /\ last.gen0 # 0
  /\ argMu = Spot(Rows(argMu), latent_dim, 0, 1, 1, One)

=============================================================================
